---- MODULE Spec2Model ----
(***************************************************************************)
(* A model of src/lgi-async-extra/bytearray.c: the Lua binding of GLib's   *)
(* GByteArray.  Every C function registered in bytearray_mt / bytearray_lib*)
(* is one action; the Lua stack each function manipulates is modelled as a *)
(* sequence of Lua values, so that lua_pop / lua_touserdata / return n act  *)
(* on the stack the code really has at that point.                          *)
(*                                                                          *)
(* Assumed build: Lua 5.3 or later (lua_isinteger), 64-bit lua_Integer and  *)
(* 64-bit size_t, GLib with its default argument checks.                    *)
(***************************************************************************)
EXTENDS Integers, Sequences, FiniteSets, TLC

\* ---------------------------------------------------------------- bounds
MaxBytes == 3        \* bytes the arrays hold in total before append stops
MaxSrc == 2          \* longest string / GLib.Bytes used as an append source

Handles == {"b", "c"}            \* the userdata the script holds
\* NUL, 'A', a continuation byte, the lead byte of a 2-byte character
ByteSamples == {0, 65, 128, 195}
\* values written by __newindex: negative, in 0..255, above 255
SetValues == {-128, 65, 256, 451}
NoHandle == "-"

SeqsUpTo(n) == UNION {[1..k -> ByteSamples] : k \in 0..n}

\* ------------------------------------------------------------ Lua values
\* One record shape for every Lua value: t is lua_type's answer, k the
\* subtype / name, h the bytearray handle behind a userdata, s the bytes of
\* a string or GLib.Bytes, n the number.
MkVal(t, k, h, s, n) == [t |-> t, k |-> k, h |-> h, s |-> s, n |-> n]

LuaNone == MkVal("none", "", NoHandle, <<>>, 0)
LuaNil == MkVal("nil", "", NoHandle, <<>>, 0)
LuaBool == MkVal("boolean", "true", NoHandle, <<>>, 0)
LuaTable == MkVal("table", "", NoHandle, <<>>, 0)
LuaLightUd == MkVal("lightuserdata", "", NoHandle, <<>>, 0)
LuaInt(n) == MkVal("number", "int", NoHandle, <<>>, n)
\* the float n.0
LuaFloat(n) == MkVal("number", "float", NoHandle, <<>>, n)
\* the float n.5
LuaFloatHalf(n) == MkVal("number", "frac", NoHandle, <<>>, n)
\* a string given by its bytes
LuaStr(s) == MkVal("string", "", NoHandle, s, 0)
\* a string given by its (non-numeric) text, such as a method name
LuaName(k) == MkVal("string", k, NoHandle, <<>>, 0)
LuaCFunction(k) == MkVal("function", k, NoHandle, <<>>, 0)
UdBytearray(h) == MkVal("userdata", "bytearray", h, <<>>, 0)
UdGBytes(s) == MkVal("userdata", "GLib.Bytes", NoHandle, s, 0)
UdForeign == MkVal("userdata", "Gio.File", NoHandle, <<>>, 0)

LUA_BYTEARRAY == "bytearray"

\* luaL_typename: lua_typename(L, lua_type(L, idx))
lua_typename(t) ==
    CASE t = "none" -> "no value"
      [] t = "lightuserdata" -> "userdata"
      [] OTHER -> t

\* ------------------------------------------------------------- the stack
lua_type(st, idx) == IF idx \in 1..Len(st) THEN st[idx].t ELSE "none"

lua_pop(st, n) == SubSeq(st, 1, Len(st) - n)

lua_isinteger(v) == v.t = "number" /\ v.k = "int"

\* lua_tointeger: 0 when the value does not convert to an integer
lua_tointeger(v) ==
    IF v.t = "number" /\ v.k \in {"int", "float"} THEN v.n ELSE 0

\* lua_tostring of a string or nil: NULL for nil
lua_tostring(v) ==
    IF v.t = "string" THEN [null |-> FALSE, str |-> v.k]
                      ELSE [null |-> TRUE, str |-> ""]

\* lua_touserdata: NULL for an index above the top or a non-userdata
lua_touserdata(st, idx) ==
    IF idx \in 1..Len(st) /\ st[idx].t \in {"userdata", "lightuserdata"}
    THEN [null |-> FALSE, ud |-> st[idx]]
    ELSE [null |-> TRUE, ud |-> LuaNone]

\* ------------------------------------------------------------ call results
Ok(vals) == [kind |-> "ok", vals |-> vals, msg |-> "", got |-> ""]
Error(msg, got) == [kind |-> "error", vals |-> <<>>, msg |-> msg, got |-> got]
Crash == [kind |-> "crash", vals |-> <<>>, msg |-> "", got |-> ""]

\* `return n` of a lua_CFunction fn: the top n values of its stack.  With
\* fewer than n values on the stack, Lua takes the slots below the frame's
\* base, where the called function itself lies (or aborts, under
\* LUA_USE_APICHECK).
lua_return(st, n, fn) ==
    IF Len(st) >= n
    THEN {Ok(SubSeq(st, Len(st) - n + 1, Len(st)))}
    ELSE {Ok(<<LuaCFunction(fn)>>), Crash}

\* ------------------------------------------------------------------ GLib
\* g_byte_array_append: the bytes are added at the end of the array
g_byte_array_prepend(arr, bytes) == bytes \o arr
g_byte_array_append(arr, bytes) == arr \o bytes

\* g_bytes_get_data(bytes, &size): with bytes == NULL the argument check
\* returns NULL and leaves size alone (0, as initialised at line 130); a
\* GLib built with G_DISABLE_CHECKS dereferences NULL instead.
g_bytes_get_data(p) ==
    IF p.null
    THEN {[crash |-> FALSE, null |-> TRUE, bytes |-> <<>>],
          [crash |-> TRUE, null |-> TRUE, bytes |-> <<>>]}
    ELSE {[crash |-> FALSE, null |-> FALSE, bytes |-> p.ud.s]}

IsCont(x) == x \in 128..191

\* The length of the well-formed UTF-8 character that starts at s[i], 0 when
\* there is none (NUL counts as invalid: the length is given explicitly).
Utf8CharLen(s, i) ==
    LET b0 == s[i]
        at(j) == IF i + j <= Len(s) THEN s[i + j] ELSE 0
    IN  CASE b0 \in 1..127 -> 1
          [] b0 \in 194..223 -> IF IsCont(at(1)) THEN 2 ELSE 0
          [] b0 = 224 ->
               IF at(1) \in 160..191 /\ IsCont(at(2)) THEN 3 ELSE 0
          [] b0 \in (225..236) \cup (238..239) ->
               IF IsCont(at(1)) /\ IsCont(at(2)) THEN 3 ELSE 0
          [] b0 = 237 ->
               IF at(1) \in 128..159 /\ IsCont(at(2)) THEN 3 ELSE 0
          [] b0 = 240 ->
               IF at(1) \in 144..191 /\ IsCont(at(2)) /\ IsCont(at(3))
               THEN 4 ELSE 0
          [] b0 \in 241..243 ->
               IF IsCont(at(1)) /\ IsCont(at(2)) /\ IsCont(at(3))
               THEN 4 ELSE 0
          [] b0 = 244 ->
               IF at(1) \in 128..143 /\ IsCont(at(2)) /\ IsCont(at(3))
               THEN 4 ELSE 0
          [] OTHER -> 0

\* g_utf8_validate(s, len, &end): the number of bytes before `end`, the
\* first byte that starts no well-formed character, counted from s[i].
RECURSIVE Utf8ValidFrom(_, _)
Utf8ValidFrom(s, i) ==
    IF i > Len(s) THEN 0
    ELSE LET n == Utf8CharLen(s, i)
         IN  IF n = 0 THEN 0 ELSE n + Utf8ValidFrom(s, i + n)

g_utf8_validate(s) == Utf8ValidFrom(s, 1) = Len(s)

REPLACEMENT_CHARACTER == <<239, 191, 189>>       \* "\357\277\275", U+FFFD

\* g_utf8_make_valid(s, len): the valid stretches kept, every byte that
\* starts no well-formed character replaced by U+FFFD.
RECURSIVE g_utf8_make_valid(_)
g_utf8_make_valid(s) ==
    LET v == Utf8ValidFrom(s, 1)
    IN  IF v = Len(s) THEN s
        ELSE SubSeq(s, 1, v) \o REPLACEMENT_CHARACTER
             \o g_utf8_make_valid(SubSeq(s, v + 2, Len(s)))

\* lua_pushlstring(L, str, size): the first `size` bytes of str
lua_pushlstring(str, size) == LuaStr(SubSeq(str, 1, size))

\* ---------------------------------------------------------- C conversions
\* (size_t) of a lua_Integer: a negative i becomes 2^64 + i.  The value is
\* kept as the pair (wrapped, off) that stands for off + 2^64 * wrapped.
ToSizeT(i) == [wrapped |-> i < 0, off |-> i]

\* index >= array->bytearray->len, len being a guint (below 2^32): a
\* wrapped index is at least 2^63 and so above every len.
IndexSignedCompare(idx, len) == idx.off >= len
IndexOutOfRange(idx, len) == idx.wrapped \/ idx.off >= len

\* (guint8) of a lua_Integer: its low 8 bits
ToGuint8Untruncated(v) == v
ToGuint8(v) == v % 256

\* *(data + index); the bounds check keeps index below len
PeekByte(arr, idx) ==
    IF idx.off + 1 \in DOMAIN arr /\ ~idx.wrapped THEN arr[idx.off + 1] ELSE 0

\* *(data + index) = value
PokeByte(arr, idx, v) ==
    IF idx.off + 1 \in DOMAIN arr /\ ~idx.wrapped
    THEN [arr EXCEPT ![idx.off + 1] = v] ELSE arr

\* ------------------------------------------------------------ the metatable
\* bytearray_mt as luaopen registers it; luaL_newmetatable adds __name.
bytearray_mt ==
    ("__len" :> "bytearray_len") @@ ("__tostring" :> "bytearray_tostring")
    @@ ("__index" :> "bytearray_index")
    @@ ("__newindex" :> "bytearray_newindex")
    @@ ("__gc" :> "bytearray_gc") @@ ("__concat" :> "bytearray_append")
    @@ ("append" :> "bytearray_append")

\* luaL_getmetatable; lua_pushvalue(L, 2); lua_rawget(L, -2)
MetatableRawGet(key) ==
    IF key.t = "string" /\ key.k \in DOMAIN bytearray_mt
    THEN LuaCFunction(bytearray_mt[key.k])
    ELSE IF key.t = "string" /\ key.k = "__name" THEN LuaName(LUA_BYTEARRAY)
    ELSE LuaNil

\* ------------------------------------------------------------------ state
VARIABLES
    metatable,   \* per handle: "unborn" (not yet created), LUA_BYTEARRAY, "nil"
    data,        \* per handle: array->bytearray->data[0 .. len)
    refcount,    \* per handle: the GByteArray's reference count
    unrefs,      \* per handle: how often g_byte_array_unref was called on it
    last         \* the last call: function, arguments, outcome, state before

vars == <<metatable, data, refcount, unrefs, last>>

Call(op, entry, h, a1, a2, ret) ==
    [op |-> op, entry |-> entry, h |-> h, a1 |-> a1, a2 |-> a2, ret |-> ret,
     old |-> data, oldmeta |-> metatable, oldunrefs |-> unrefs]

\* no call is in progress or awaiting its caller
Idle ==
    [op |-> "idle", entry |-> "", h |-> NoHandle, a1 |-> LuaNone,
     a2 |-> LuaNone, ret |-> Ok(<<>>),
     old |-> [h \in Handles |-> <<>>],
     oldmeta |-> [h \in Handles |-> "unborn"],
     oldunrefs |-> [h \in Handles |-> 0]]

Init ==
    /\ metatable = [h \in Handles |-> "unborn"]
    /\ data = [h \in Handles |-> <<>>]
    /\ refcount = [h \in Handles |-> 0]
    /\ unrefs = [h \in Handles |-> 0]
    /\ last = Idle

\* the script is between two calls and holds the userdata h
Callable(h) == last.op = "idle" /\ metatable[h] # "unborn"

\* luaL_checkudata(L, 1, LUA_BYTEARRAY)
luaL_checkudata(h) == metatable[h] = LUA_BYTEARRAY
CheckUdataError == Error("bytearray expected", "userdata")

\* ---------------------------------------------------------------- actions
\* bytearray_new: a fresh userdata with an empty GByteArray and the metatable
bytearray_new(h) ==
    /\ last.op = "idle"
    /\ metatable[h] = "unborn"
    /\ metatable' = [metatable EXCEPT ![h] = LUA_BYTEARRAY]
    /\ data' = [data EXCEPT ![h] = <<>>]
    /\ refcount' = [refcount EXCEPT ![h] = 1]
    /\ last' = Call("new", "new", h, LuaNone, LuaNone, Ok(<<UdBytearray(h)>>))
    /\ UNCHANGED unrefs

\* bytearray_len
bytearray_len_result(h) ==
    IF ~luaL_checkudata(h) THEN CheckUdataError
    ELSE Ok(<<LuaInt(Len(data[h]))>>)

bytearray_len(h) ==
    /\ Callable(h)
    /\ last' = Call("len", "__len", h, LuaNone, LuaNone, bytearray_len_result(h))
    /\ UNCHANGED <<metatable, data, refcount, unrefs>>

\* bytearray_tostring
bytearray_tostring_result(h) ==
    IF ~luaL_checkudata(h) THEN CheckUdataError
    ELSE LET size == Len(data[h])
             str == g_utf8_make_valid(data[h])
         IN  Ok(<<lua_pushlstring(str, size)>>)

bytearray_tostring(h) ==
    /\ Callable(h)
    /\ last' = Call("tostring", "__tostring", h, LuaNone, LuaNone,
                    bytearray_tostring_result(h))
    /\ UNCHANGED <<metatable, data, refcount, unrefs>>

\* bytearray_index
bytearray_index_result(h, key) ==
    IF ~luaL_checkudata(h) THEN CheckUdataError
    ELSE IF lua_isinteger(key)
    THEN LET index == ToSizeT(lua_tointeger(key))
         IN  IF IndexOutOfRange(index, Len(data[h]))
             THEN Error("index out of range", "")
             ELSE Ok(<<LuaInt(PeekByte(data[h], index))>>)
    ELSE Ok(<<MetatableRawGet(key)>>)

bytearray_index(h, key) ==
    /\ Callable(h)
    /\ last' = Call("index", "__index", h, key, LuaNone,
                    bytearray_index_result(h, key))
    /\ UNCHANGED <<metatable, data, refcount, unrefs>>

\* bytearray_newindex: no lua_isinteger test; `return 1` hands back the top
\* of the stack <<array, key, value>>
bytearray_newindex_result(h, key, value) ==
    IF ~luaL_checkudata(h)
    THEN [ret |-> CheckUdataError, data |-> data[h]]
    ELSE LET index == ToSizeT(lua_tointeger(key))
         IN  IF IndexOutOfRange(index, Len(data[h]))
             THEN [ret |-> Error("index out of range", ""), data |-> data[h]]
             ELSE [ret |-> Ok(<<value>>),
                   data |-> PokeByte(data[h], index,
                                     ToGuint8(lua_tointeger(value)))]

bytearray_newindex(h, key, value) ==
    /\ Callable(h)
    /\ LET r == bytearray_newindex_result(h, key, value)
       IN  /\ data' = [data EXCEPT ![h] = r.data]
           /\ last' = Call("newindex", "__newindex", h, key, value, r.ret)
    /\ UNCHANGED <<metatable, refcount, unrefs>>

\* lua_pushnil; lua_setmetatable(L, 1) of bytearray_gc
GcKeepMetatable(mt, h) == mt
GcUnsetMetatable(mt, h) == [mt EXCEPT ![h] = "nil"]

\* bytearray_gc: the reference is dropped (the store is freed with the last
\* one) and the metatable unset
bytearray_gc(h) ==
    /\ Callable(h)
    /\ IF ~luaL_checkudata(h)
       THEN /\ last' = Call("gc", "__gc", h, LuaNone, LuaNone, CheckUdataError)
            /\ UNCHANGED <<metatable, data, refcount, unrefs>>
       ELSE /\ refcount' = [refcount EXCEPT ![h] = @ - 1]
            /\ unrefs' = [unrefs EXCEPT ![h] = @ + 1]
            /\ data' = [data EXCEPT ![h] = IF refcount[h] = 1 THEN <<>> ELSE @]
            /\ metatable' = GcUnsetMetatable(metatable, h)
            /\ last' = Call("gc", "__gc", h, LuaNone, LuaNone, Ok(<<>>))

\* The chunk l_get_type_name ("local val = ...; return val._name") called on
\* the userdata v.  An LGI object answers with its type's name; a bytearray
\* answers through __index (bytearray_index with the key "_name"); a
\* userdata without a metatable cannot be indexed, and Lua raises.
l_get_type_name(v) ==
    IF v.k = LUA_BYTEARRAY
    THEN IF metatable[v.h] = LUA_BYTEARRAY
         THEN [err |-> FALSE,
               val |-> bytearray_index_result(v.h, LuaName("_name")).vals[1]]
         ELSE [err |-> TRUE, val |-> LuaNil]
    ELSE [err |-> FALSE, val |-> LuaName(v.k)]

\* strcmp(type, "GLib.Bytes") with type == NULL (lua_tostring of nil) is
\* undefined: the read of address 0 faults, or the comparison is compiled
\* to one that reports a difference.
StrcmpNullOutcomes == {Crash, Error("GLib.Bytes expected", "")}

\* The LUA_TUSERDATA case of bytearray_append, from the stack <<array, src>>
AppendUserdata(h, st0) ==
    LET st1 == Append(st0, LuaCFunction("l_get_type_name"))   \* luaL_loadstring
        st2 == Append(st1, st1[2])                            \* lua_pushvalue
        name == l_get_type_name(st2[Len(st2)])                \* lua_call
        st3 == Append(lua_pop(st2, 2), name.val)
        type == lua_tostring(st3[Len(st3)])
        st4 == lua_pop(st3, 2)
        bytes == lua_touserdata(st4, 2)
        st5 == lua_pop(st4, 1)
    IN  IF name.err
        THEN {[ret |-> Error("attempt to index a userdata value", ""),
               data |-> data[h]]}
        ELSE IF type.null
        THEN {[ret |-> r, data |-> data[h]] : r \in StrcmpNullOutcomes}
        ELSE IF type.str # "GLib.Bytes"
        THEN {[ret |-> Error("GLib.Bytes expected", ""), data |-> data[h]]}
        ELSE UNION {
               IF g.crash THEN {[ret |-> Crash, data |-> data[h]]}
               ELSE {[ret |-> r,
                      data |-> IF ~g.null /\ Len(g.bytes) > 0
                               THEN g_byte_array_append(data[h], g.bytes)
                               ELSE data[h]]
                     : r \in lua_return(st5, 1, "bytearray_append")}
               : g \in g_bytes_get_data(bytes)}

\* bytearray_append, entered as "append" or as "__concat": the set of its
\* outcomes, each a result and the array's bytes afterwards
bytearray_append_result(h, src) ==
    LET st0 == IF src.t = "none" THEN <<UdBytearray(h)>>
                                 ELSE <<UdBytearray(h), src>>
    IN  IF ~luaL_checkudata(h)
        THEN {[ret |-> CheckUdataError, data |-> data[h]]}
        ELSE CASE lua_type(st0, 2) = "string" ->
                    LET bytes == st0[2].s                      \* lua_tolstring
                        st1 == lua_pop(st0, 1)
                    IN  {[ret |-> r,
                          data |-> IF Len(bytes) > 0
                                   THEN g_byte_array_append(data[h], bytes)
                                   ELSE data[h]]
                         : r \in lua_return(st1, 1, "bytearray_append")}
               [] lua_type(st0, 2) = "userdata" -> AppendUserdata(h, st0)
               [] OTHER ->
                    LET st1 == lua_pop(st0, 1)
                    IN  {[ret |-> Error("string or userdata expected, got",
                                        lua_typename(lua_type(st1, 2))),
                          data |-> data[h]]}

RECURSIVE SumLen(_)
SumLen(S) ==
    IF S = {} THEN 0
    ELSE LET x == CHOOSE y \in S : TRUE
         IN  Len(data[x]) + SumLen(S \ {x})

\* the bytes all arrays hold together
StoredBytes == SumLen(Handles)

AppendSources ==
    {LuaStr(s) : s \in SeqsUpTo(MaxSrc)}
    \cup {UdGBytes(s) : s \in SeqsUpTo(MaxSrc)}
    \cup {UdBytearray(c) : c \in {x \in Handles : metatable[x] # "unborn"}}
    \cup {UdForeign, LuaInt(42), LuaBool, LuaTable, LuaNil, LuaLightUd, LuaNone}

bytearray_append(h, entry, src) ==
    /\ Callable(h)
    /\ StoredBytes + Len(src.s) <= MaxBytes
    /\ \E r \in bytearray_append_result(h, src) :
         /\ data' = [data EXCEPT ![h] = r.data]
         /\ last' = Call("append", entry, h, src, LuaNone, r.ret)
    /\ UNCHANGED <<metatable, refcount, unrefs>>

IndexKeys ==
    {LuaInt(i) : i \in -1..MaxBytes}
    \cup {LuaName("append"), LuaName("_name"), LuaFloat(1), LuaFloatHalf(1),
          LuaNil}

\* The call has returned or raised and the script goes on; after a crash
\* there is no process left to go on.
Resume ==
    /\ last.op # "idle"
    /\ last.ret.kind # "crash"
    /\ last' = Idle
    /\ UNCHANGED <<metatable, data, refcount, unrefs>>

\* the userdata a call can be made on now
CallableHandles == {h \in Handles : Callable(h)}

Next ==
    \/ Resume
    \/ \E h \in Handles : bytearray_new(h)
    \/ \E h \in CallableHandles : bytearray_len(h)
    \/ \E h \in CallableHandles : bytearray_tostring(h)
    \/ \E h \in CallableHandles : \E key \in IndexKeys : bytearray_index(h, key)
    \/ \E h \in CallableHandles : \E key \in IndexKeys, v \in SetValues :
         bytearray_newindex(h, key, LuaInt(v))
    \/ \E h \in CallableHandles : bytearray_gc(h)
    \/ \E h \in CallableHandles : \E entry \in {"append", "__concat"} :
         \E src \in AppendSources : bytearray_append(h, entry, src)

Spec == Init /\ [][Next]_vars

\* ------------------------------------------------------------------ claims
\* the call recorded in `last` was made on a userdata that had the metatable
LiveBefore(h) == last.oldmeta[h] = LUA_BYTEARRAY
OthersUnchanged(h) == \A g \in Handles \ {h} : data[g] = last.old[g]
\* a key that is no integer: a string, nil, a number with a fraction
NonIntegerKey(v) == v.t # "number" \/ v.k = "frac"

\* C1: append(b, s) of a string s to a live array succeeds; the length grows
\* by the byte length of s, the old bytes stay where they were, the new
\* region holds the bytes of s in order, and an empty s changes nothing.
C1_AppendStringExtends ==
    (last.op = "append" /\ last.a1.t = "string" /\ LiveBefore(last.h)) =>
        LET s == last.a1.s
            o == last.old[last.h]
            d == data[last.h]
        IN  /\ last.ret.kind = "ok"
            /\ Len(d) = Len(o) + Len(s)
            /\ \A i \in 1..Len(o) : d[i] = o[i]
            /\ \A j \in 1..Len(s) : d[Len(o) + j] = s[j]
            /\ (s = <<>> => d = o)
            /\ OthersUnchanged(last.h)

C1_Witness ==
    /\ last.op = "append" /\ last.a1.t = "string" /\ last.ret.kind = "ok"
    /\ Len(last.a1.s) = 2 /\ last.a1.s[1] # last.a1.s[2]
    /\ Len(last.old[last.h]) = 1 /\ last.old[last.h][1] # last.a1.s[1]
    /\ Len(data[last.h]) = 3

\* C2: get and set on a live array with an integer index below 0 or at or
\* above the length fail with "index out of range" and change no byte and
\* no length.
C2_OutOfRangeFails ==
    (/\ last.op \in {"index", "newindex"}
     /\ lua_isinteger(last.a1)
     /\ LiveBefore(last.h)
     /\ (last.a1.n < 0 \/ last.a1.n >= Len(last.old[last.h]))) =>
        /\ last.ret.kind = "error"
        /\ last.ret.msg = "index out of range"
        /\ data = last.old

C2_Witness ==
    /\ last.op = "newindex" /\ lua_isinteger(last.a1) /\ LiveBefore(last.h)
    /\ Len(last.old[last.h]) = 2
    /\ last.a1.n = 2
    /\ last.ret.kind = "error"
    /\ Len(data[last.h]) = 2

\* C3: after set(b, i, v) with 0 <= i < length on a live array, get(b, i)
\* returns v mod 256, every other byte and the length are unchanged.
C3_SetThenGet ==
    (/\ last.op = "newindex"
     /\ lua_isinteger(last.a1)
     /\ LiveBefore(last.h)
     /\ last.a1.n >= 0 /\ last.a1.n < Len(last.old[last.h])) =>
        LET got == bytearray_index_result(last.h, last.a1)
            o == last.old[last.h]
            d == data[last.h]
        IN  /\ last.ret.kind = "ok"
            /\ got.kind = "ok" /\ Len(got.vals) = 1
            /\ lua_isinteger(got.vals[1])
            /\ got.vals[1].n \in 0..255
            /\ \E q \in -2..2 : last.a2.n = 256 * q + got.vals[1].n
            /\ Len(d) = Len(o)
            /\ \A i \in 1..Len(o) : i # last.a1.n + 1 => d[i] = o[i]
            /\ OthersUnchanged(last.h)

C3_Witness ==
    /\ last.op = "newindex" /\ lua_isinteger(last.a1) /\ LiveBefore(last.h)
    /\ last.a1.n = 1 /\ Len(last.old[last.h]) = 2
    /\ last.a2.n = -128
    /\ last.ret.kind = "ok"
    /\ data[last.h][2] = 128 /\ last.old[last.h][2] # 128

\* C4: every append that succeeds, with a string or a GLib.Bytes source and
\* entered as "append" or as "__concat", returns exactly one value, the
\* array it was called on.
C4_AppendReturnsArray ==
    (/\ last.op = "append"
     /\ last.ret.kind = "ok"
     /\ (last.a1.t = "string" \/ last.a1.k = "GLib.Bytes")) =>
        last.ret.vals = <<UdBytearray(last.h)>>

\* C5: append(b, g) of a GLib.Bytes g of n bytes to a live array copies the
\* bytes: when the call comes back the length has grown by n, the new region
\* equals g's bytes and the old bytes are unchanged.
C5_AppendBytesCopies ==
    (/\ last.op = "append"
     /\ last.a1.t = "userdata" /\ last.a1.k = "GLib.Bytes"
     /\ LiveBefore(last.h)
     /\ last.ret.kind # "crash") =>
        /\ Len(data[last.h]) = Len(last.old[last.h]) + Len(last.a1.s)
        /\ data[last.h] = last.old[last.h] \o last.a1.s

\* C6: append(b, x) with x a number, boolean, table or nil fails with an
\* argument error that names the type of x, and changes nothing.
C6_AppendNamesOffendingType ==
    (/\ last.op = "append"
     /\ last.a1.t \in {"number", "boolean", "table", "nil"}
     /\ LiveBefore(last.h)) =>
        /\ last.ret.kind = "error"
        /\ last.ret.got = last.a1.t
        /\ data = last.old

\* C7: append(b, c) with c a live bytearray (c = b included) is rejected
\* with a reported error, never a crash, and neither array changes.
C7_AppendRejectsBytearray ==
    (/\ last.op = "append"
     /\ last.a1.t = "userdata" /\ last.a1.k = LUA_BYTEARRAY
     /\ LiveBefore(last.h) /\ LiveBefore(last.a1.h)) =>
        /\ last.ret.kind = "error"
        /\ data = last.old

\* C8: tostring of a live array never raises and returns the repaired text,
\* the bytes with every invalid sequence replaced by U+FFFD, which is valid
\* UTF-8; the array is not changed.
C8_ToStringReturnsRepairedText ==
    (last.op = "tostring" /\ LiveBefore(last.h)) =>
        /\ last.ret.kind = "ok"
        /\ Len(last.ret.vals) = 1
        /\ last.ret.vals[1].t = "string"
        /\ last.ret.vals[1].s = g_utf8_make_valid(last.old[last.h])
        /\ g_utf8_validate(last.ret.vals[1].s)
        /\ data = last.old

\* C9: release is terminal.  The reference of an array is dropped at most
\* once; a released handle has lost its one reference; release of a live
\* handle leaves it released; and every call on a released handle fails
\* without touching bytes, reference counts or the handle's state.
C9_ReleasedIsTerminal ==
    /\ \A h \in Handles :
         /\ unrefs[h] <= 1
         /\ refcount[h] >= 0
         /\ (metatable[h] = "nil" => unrefs[h] = 1 /\ refcount[h] = 0)
    /\ (last.op = "gc" /\ LiveBefore(last.h)) =>
         /\ metatable[last.h] = "nil"
         /\ unrefs[last.h] = last.oldunrefs[last.h] + 1
    /\ (last.op \in {"len", "index", "newindex", "append", "tostring", "gc"}
        /\ last.oldmeta[last.h] = "nil") =>
         /\ last.ret.kind = "error"
         /\ data = last.old
         /\ unrefs = last.oldunrefs
         /\ metatable = last.oldmeta

C9_Witness ==
    /\ last.op = "gc"
    /\ last.oldmeta[last.h] = "nil"
    /\ last.ret.kind = "error"
    /\ unrefs[last.h] = 1
    /\ \E g \in Handles \ {last.h} : Len(data[g]) > 0

\* C10: on a live array a key that is no integer never addresses a byte:
\* the read returns the metatable's entry for the key (or nil), the write
\* overwrites no byte.
C10_NonIntegerKeyTouchesNoByte ==
    (/\ last.op \in {"index", "newindex"}
     /\ NonIntegerKey(last.a1)
     /\ LiveBefore(last.h)) =>
        /\ data = last.old
        /\ last.op = "index" =>
             /\ last.ret.kind = "ok"
             /\ last.ret.vals \in
                  {<<LuaNil>>, <<LuaName(LUA_BYTEARRAY)>>}
                  \cup {<<LuaCFunction(bytearray_mt[k])>> : k \in DOMAIN bytearray_mt}

====
